---------------------------- MODULE Spec2Model ----------------------------
(***************************************************************************)
(* State-machine model of the turbo-genius chat server (src/main.py) and   *)
(* of its desktop client (src/chat_client.py).                             *)
(*                                                                         *)
(* The server is one asyncio event loop (uvicorn) plus one worker thread   *)
(* per generation.  A coroutine runs alone on the loop from one await to   *)
(* the next; `loop` names the coroutine that currently occupies the loop   *)
(* (0: the loop is free).  The blocking `for token in streamer` of         *)
(* stream_tokens keeps the loop occupied while it waits for the worker     *)
(* thread, so no other handler runs during that wait.                      *)
(*                                                                         *)
(* session.py (Session, SessionManager) is not part of the sources at      *)
(* hand; its operations are modelled from the written specification.       *)
(***************************************************************************)
EXTENDS Integers, Sequences, FiniteSets, TLC

\* ----------------------------------------------------------------- bounds
NumConns == 2           \* stream connections opened in one run
MaxSessions == 2        \* sessions created in one run
MaxFrags == 2           \* fragments one generation emits at most
MaxHist == 4            \* non-system messages of an input transcript (PromptSpec, TruncSpec)
RecursionLimit == 4     \* frames the interpreter grants make_prompt's recursion (scaled down)

\* ------------------------------------------------- tokenizer (external)
PerMessageTokens == 1   \* template tokens around one message
SystemTokens == 1       \* tokens of the fixed system message's content

Conns == 1..NumConns
Ids == 1..MaxSessions
Prompts == {"Hello"}
\* The configured max_position_embeddings: the budget admits nothing (2),
\* the system message alone (4), or a short exchange (8).
MaxPosChoices == {2, 4, 8}
\* The streamer's stop signal: no fragment has index 0.
STOP == 0
\* Session.title of a new session
DefaultTitle == "New session"
\* marks a session object never built, or a key absent from a dictionary
NoTitle == ""
\* summary_text values the summarizer can return
Titles == {"Greeting"}

VARIABLES
    maxPos,      \* config.max_position_embeddings
    store,       \* SessionManager: the registered session ids
    nextId,      \* SessionManager: the next identity to hand out
    msgs,        \* msgs[s]: transcript of session object s
    loop,        \* the coroutine occupying the event loop, 0 if none
    pc,          \* pc[c]: where the stream handler of connection c stands
    sid,         \* sid[c]: session id in the path of connection c
    prompt,      \* prompt[c]: the text frame received on c
    depth,       \* depth[c]: nested make_prompt calls of c's stream
    completion,  \* completion[c]: the handler's accumulated fragments
    queue,       \* queue[c]: the streamer's queue between thread and handler
    eng,         \* eng[c]: state of the generation thread of c's stream
    produced,    \* produced[c]: fragments the thread has pushed
    received,    \* received[c]: frames the client has received on c
    dropped,     \* dropped[c]: the client has dropped connection c
    entry,       \* entry[c]: the transcript when make_prompt was entered
    appended,    \* appended[c]: assistant contents c's stream has appended
    userIn,      \* userIn[c]: c's stream has appended its user message
    sendErrs,    \* sendErrs[c]: sends of c's stream that raised
    cause,       \* cause[c]: what ended c's stream
    title,       \* title[s]: title of session object s
    issued,      \* the identities get_new_session has returned, in order
    midDel,      \* midDel[c]: c's session was removed while c's stream was in flight
    cSession,    \* client: self.session_id, 0 for None
    cTitles,     \* client: self.session_titles, NoTitle where the key is absent
    cpc,         \* cpc[c]: where the client's stream_tokens coroutine of c stands
    cTarget,     \* cTarget[c]: the session id in the uri c was opened with
    cUrl,        \* cUrl[c]: the session id in the url of c's title request
    cResp,       \* cResp[c]: escaped_title of c's title request
    cKey,        \* cKey[c]: the key c's title was recorded under
    cAsked       \* cAsked[s]: title requests of the client that ran the summarizer for s

vars == <<maxPos, store, nextId, msgs, loop, pc, sid, prompt, depth, completion,
          queue, eng, produced, received, dropped, entry, appended, userIn,
          sendErrs, cause, title, issued, midDel, cSession, cTitles, cpc, cTarget,
          cUrl, cResp, cKey, cAsked>>

sessVars == <<store, nextId, msgs>>
engVars == <<queue, eng, produced>>
ghostVars == <<entry, appended, userIn, sendErrs, cause>>
auxVars == <<title, issued, midDel>>
clientVars == <<cSession, cTitles, cpc, cTarget, cUrl, cResp, cKey, cAsked>>
serverVars == <<maxPos, store, nextId, msgs, loop, pc, sid, prompt, depth,
                completion, queue, eng, produced, received, dropped, entry,
                appended, userIn, sendErrs, cause, title, issued, midDel>>

\* ---------------------------------------------------------------- helpers
Msg(r, t) == [role |-> r, content |-> t]

SystemMessage == Msg("system", [i \in 1..SystemTokens |-> "sys"])

RECURSIVE SumTokens(_)
SumTokens(ms) ==
    IF ms = <<>> THEN 0
    ELSE PerMessageTokens + Len(Head(ms).content) + SumTokens(Tail(ms))

\* tokenizer.apply_chat_template(..., tokenize=True).shape[-1]
NumTokens(ms) == SumTokens(ms)

\* int(config.max_position_embeddings * 0.9)
Budget == (maxPos * 9) \div 10

CeilHalf(n) == (n + 1) \div 2

\* Sequences over S of length at most n
SeqsUpTo(S, n) == UNION {[1..k -> S] : k \in 0..n}

\* ------------------------------------------------- Session (session.py)
AddUserMessage(ms, t) == Append(ms, Msg("user", t))

AddAssistantMessage(ms, t) == Append(ms, Msg("assistant", t))

\* The oldest pair of non-system messages goes, or the oldest single one
\* when an odd number remain; the system message at index 1 stays.
TruncateDrop_One(n) == IF n = 0 THEN 0 ELSE 1

TruncateDrop(n) == IF n = 0 THEN 0 ELSE IF n % 2 = 1 THEN 1 ELSE 2

TruncateMessages(ms) ==
    LET n == Len(ms) - 1
        k == TruncateDrop(n)
    IN <<ms[1]>> \o SubSeq(ms, 2 + k, Len(ms))


\* ------------------------------------------------------------ initial state
ConnInit(v) == [c \in Conns |-> v]

\* ChatApp.__init__: no current session, no recorded titles, no stream
ClientInit ==
    /\ cSession = 0
    /\ cTitles = [k \in 0..MaxSessions |-> NoTitle]
    /\ cpc = ConnInit("idle")
    /\ cTarget = ConnInit(0)
    /\ cUrl = ConnInit(0)
    /\ cResp = ConnInit("")
    /\ cKey = ConnInit(0)
    /\ cAsked = [s \in Ids |-> 0]

Init ==
    /\ maxPos \in MaxPosChoices
    /\ store = {}
    /\ nextId = 1
    /\ title = [s \in Ids |-> NoTitle]
    /\ issued = <<>>
    /\ midDel = ConnInit(FALSE)
    /\ msgs = [s \in Ids |-> <<>>]
    /\ loop = 0
    /\ pc = ConnInit("AwaitingHandshake")
    /\ sid = ConnInit(0)
    /\ prompt = ConnInit("")
    /\ depth = ConnInit(0)
    /\ completion = ConnInit(<<>>)
    /\ queue = ConnInit(<<>>)
    /\ eng = ConnInit("none")
    /\ produced = ConnInit(<<>>)
    /\ received = ConnInit(<<>>)
    /\ dropped = ConnInit(FALSE)
    /\ entry = ConnInit(<<>>)
    /\ appended = ConnInit(<<>>)
    /\ userIn = ConnInit(FALSE)
    /\ sendErrs = ConnInit(0)
    /\ cause = ConnInit("none")
    /\ ClientInit

\* ------------------------------------------- SessionManager (session.py)
\* the identity derived from the number of registered sessions
NewId_CountPlusOne == Cardinality(store) + 1

\* the identity get_new_session hands out: a counter that only grows
NewId == nextId

\* get_new_session: a fresh identity, a transcript seeded with the system
\* message, the default title
GetNewSession ==
    /\ loop = 0
    /\ nextId <= MaxSessions
    /\ store' = store \cup {NewId}
    /\ msgs' = [msgs EXCEPT ![NewId] = <<SystemMessage>>]
    /\ title' = [title EXCEPT ![NewId] = DefaultTitle]
    /\ issued' = Append(issued, NewId)
    /\ nextId' = nextId + 1
    /\ UNCHANGED <<maxPos, loop, pc, sid, prompt, depth, completion, dropped,
                   received, midDel>>
    /\ UNCHANGED <<engVars, ghostVars>>

\* GET /session, asked by some other client
CreateSession == GetNewSession /\ UNCHANGED clientVars

\* c's stream works on registered session s: its user message is appended,
\* its assistant message is not yet
MidStream(c, s) ==
    /\ s \in store
    /\ sid[c] = s
    /\ userIn[c]
    /\ appended[c] = <<>>
    /\ pc[c] # "Crashed"

\* remove_session that raises on an id it does not hold
RemoveSession_Strict(s) ==
    /\ loop = 0
    /\ s \in store
    /\ store' = store \ {s}
    /\ midDel' = [c \in Conns |-> midDel[c] \/ MidStream(c, s)]
    /\ UNCHANGED <<maxPos, nextId, msgs, loop, pc, sid, prompt, depth,
                   completion, dropped, received>>
    /\ UNCHANGED <<engVars, ghostVars, title, issued>>

\* remove_session: idempotent; the object lives on while a handler holds it
RemoveSession(s) ==
    /\ loop = 0
    /\ store' = store \ {s}
    /\ midDel' = [c \in Conns |-> midDel[c] \/ MidStream(c, s)]
    /\ UNCHANGED <<maxPos, nextId, msgs, loop, pc, sid, prompt, depth,
                   completion, dropped, received>>
    /\ UNCHANGED <<engVars, ghostVars, title, issued>>

\* DELETE /session/{s}, asked by some other client
DeleteSession(s) == RemoveSession(s) /\ UNCHANGED clientVars

\* ------------------------------------------------------------ title endpoint
\* the title is assigned before the summarizer has answered
TitleOnFailure_Blank(t) == NoTitle

\* session.title after a request whose summarizer raised: line 149 is not reached
TitleOnFailure(t) == t

\* GET /session/{s}/title: get_session, make_title, session.title = the summary.
\* r is the summarizer's answer, "" when it raises.  make_title has no await,
\* so the handler runs in one piece on the loop.
GetSessionTitle(s, r) ==
    /\ loop = 0
    /\ title' = IF s \notin store THEN title
                ELSE IF r = "" THEN [title EXCEPT ![s] = TitleOnFailure(@)]
                ELSE [title EXCEPT ![s] = r]
    /\ UNCHANGED <<maxPos, store, nextId, msgs, issued, midDel, loop, pc, sid,
                   prompt, depth, completion, dropped, received>>
    /\ UNCHANGED <<engVars, ghostVars>>

\* the response text of that request
TitleResponse(s, r) ==
    IF s \notin store THEN "NotFound"
    ELSE IF r = "" THEN "Internal Server Error"
    ELSE r

\* GET /session/{s}/title, asked by some other client
TitleRequest(s, r) == GetSessionTitle(s, r) /\ UNCHANGED clientVars

\* ------------------------------------------------------ make_prompt pieces
\* the measure is compared with the whole context length, without the margin
OverBudget_NoMargin(ms) == NumTokens(ms) > maxPos

\* num_tokens > int(config.max_position_embeddings * 0.9)
OverBudget(ms) == NumTokens(ms) > Budget

\* the nested call of line 96 exceeds the interpreter's recursion limit
TooDeep(d) == d >= RecursionLimit

\* --------------------------------------------------------- stream handler
\* await websocket.accept()
Accept(c, s) ==
    /\ loop = 0
    /\ pc[c] = "AwaitingHandshake"
    /\ pc' = [pc EXCEPT ![c] = "AwaitingPrompt"]
    /\ sid' = [sid EXCEPT ![c] = s]
    /\ UNCHANGED <<auxVars, clientVars>>
    /\ UNCHANGED <<maxPos, loop, prompt, depth, completion, dropped, received>>
    /\ UNCHANGED <<sessVars, engVars, ghostVars>>

\* the handler builds the session it does not find and carries on
ReceivePrompt_GetOrCreate(c, p) ==
    /\ loop = 0
    /\ pc[c] = "AwaitingPrompt"
    /\ ~dropped[c]
    /\ prompt' = [prompt EXCEPT ![c] = p]
    /\ store' = store \cup {sid[c]}
    /\ msgs' = [msgs EXCEPT ![sid[c]] =
                  AddUserMessage(IF sid[c] \in store THEN @ ELSE <<SystemMessage>>, <<p>>)]
    /\ userIn' = [userIn EXCEPT ![c] = TRUE]
    /\ entry' = [entry EXCEPT ![c] = msgs'[sid[c]]]
    /\ pc' = [pc EXCEPT ![c] = "Prompting"]
    /\ loop' = c
    /\ UNCHANGED <<auxVars, clientVars>>
    /\ UNCHANGED <<maxPos, nextId, sid, depth, completion, dropped,
                   received, appended, sendErrs, cause>>
    /\ UNCHANGED engVars

\* receive_text returns p; get_session; add_user_message; make_prompt is entered
ReceivePrompt(c, p) ==
    /\ loop = 0
    /\ pc[c] = "AwaitingPrompt"
    /\ ~dropped[c]
    /\ prompt' = [prompt EXCEPT ![c] = p]
    /\ IF sid[c] \notin store
       THEN /\ pc' = [pc EXCEPT ![c] = "Crashed"]
            /\ cause' = [cause EXCEPT ![c] = "NotFound"]
            /\ UNCHANGED <<msgs, loop, entry, userIn>>
       ELSE /\ msgs' = [msgs EXCEPT ![sid[c]] = AddUserMessage(@, <<p>>)]
            /\ userIn' = [userIn EXCEPT ![c] = TRUE]
            /\ entry' = [entry EXCEPT ![c] = msgs'[sid[c]]]
            /\ pc' = [pc EXCEPT ![c] = "Prompting"]
            /\ loop' = c
            /\ UNCHANGED cause
    /\ UNCHANGED <<auxVars, clientVars>>
    /\ UNCHANGED <<maxPos, store, nextId, sid, depth, completion, dropped,
                   received, appended, sendErrs>>
    /\ UNCHANGED engVars

\* receive_text raises: the client left before it sent the prompt
ReceiveDisconnect(c) ==
    /\ loop = 0
    /\ pc[c] = "AwaitingPrompt"
    /\ dropped[c]
    /\ pc' = [pc EXCEPT ![c] = "Crashed"]
    /\ cause' = [cause EXCEPT ![c] = "Disconnect"]
    /\ UNCHANGED <<auxVars, clientVars>>
    /\ UNCHANGED <<maxPos, loop, sid, prompt, depth, completion, dropped,
                   received, entry, appended, userIn, sendErrs>>
    /\ UNCHANGED <<sessVars, engVars>>

\* one activation of make_prompt: render, measure, then truncate and recurse,
\* or return the rendered prompt
MakePromptStep(c) ==
    /\ loop = c
    /\ pc[c] = "Prompting"
    /\ IF OverBudget(msgs[sid[c]])
       THEN /\ msgs' = [msgs EXCEPT ![sid[c]] = TruncateMessages(@)]
            /\ IF TooDeep(depth[c])
               THEN /\ pc' = [pc EXCEPT ![c] = "Crashed"]
                    /\ cause' = [cause EXCEPT ![c] = "RecursionError"]
                    /\ loop' = 0
                    /\ UNCHANGED depth
               ELSE /\ depth' = [depth EXCEPT ![c] = @ + 1]
                    /\ UNCHANGED <<pc, cause, loop>>
       ELSE /\ pc' = [pc EXCEPT ![c] = "Starting"]
            /\ UNCHANGED <<msgs, depth, cause, loop>>
    /\ UNCHANGED <<auxVars, clientVars>>
    /\ UNCHANGED <<maxPos, store, nextId, sid, prompt, completion, dropped,
                   received, entry, appended, userIn, sendErrs>>
    /\ UNCHANGED engVars

\* the send's exception is swallowed inside the loop, which goes on
OnSendError_Continue == "Sleeping"

\* what the handler does when send_text raises: except, then finally
OnSendError == "Completing"

\* what the handler does when generate_response raises before its thread runs
OnEngineError == "Completing"

\* generate_response up to its first fragment: tokenize the prompt, move it to
\* the device, start the generation thread; any of the first steps may raise
StartGeneration(c) ==
    /\ loop = c
    /\ pc[c] = "Starting"
    /\ \/ /\ eng' = [eng EXCEPT ![c] = "running"]
          /\ pc' = [pc EXCEPT ![c] = "Generating"]
          /\ UNCHANGED cause
       \/ /\ pc' = [pc EXCEPT ![c] = OnEngineError]
          /\ cause' = [cause EXCEPT ![c] = "EngineError"]
          /\ UNCHANGED eng
    /\ UNCHANGED <<auxVars, clientVars>>
    /\ UNCHANGED <<maxPos, loop, sid, prompt, depth, completion, dropped,
                   received, queue, produced, entry, appended, userIn, sendErrs>>
    /\ UNCHANGED sessVars

\* the fragment of `for token in streamer` is pulled off the queue (the loop
\* stays occupied while the queue is empty), accumulated and sent; the stop
\* signal ends the iteration and None breaks the handler's loop
PullToken(c) ==
    /\ loop = c
    /\ pc[c] = "Generating"
    /\ queue[c] # <<>>
    /\ queue' = [queue EXCEPT ![c] = Tail(@)]
    /\ IF Head(queue[c]) = STOP
       THEN /\ pc' = [pc EXCEPT ![c] = "Completing"]
            /\ cause' = [cause EXCEPT ![c] = "EndOfStream"]
            /\ UNCHANGED <<completion, received, sendErrs, loop>>
       ELSE /\ completion' = [completion EXCEPT ![c] = Append(@, Head(queue[c]))]
            /\ IF dropped[c]
               THEN /\ sendErrs' = [sendErrs EXCEPT ![c] = @ + 1]
                    /\ pc' = [pc EXCEPT ![c] = OnSendError]
                    /\ cause' = [cause EXCEPT ![c] = "Disconnect"]
                    /\ loop' = IF OnSendError = "Completing" THEN c ELSE 0
                    /\ UNCHANGED received
               ELSE /\ received' = [received EXCEPT ![c] = Append(@, Head(queue[c]))]
                    /\ pc' = [pc EXCEPT ![c] = "Sleeping"]
                    /\ loop' = 0
                    /\ UNCHANGED <<sendErrs, cause>>
    /\ UNCHANGED <<auxVars, clientVars>>
    /\ UNCHANGED <<maxPos, sid, prompt, depth, dropped, eng, produced, entry,
                   appended, userIn>>
    /\ UNCHANGED sessVars

\* asyncio.sleep(0.01) is over: back to the streamer
Wake(c) ==
    /\ loop = 0
    /\ pc[c] = "Sleeping"
    /\ pc' = [pc EXCEPT ![c] = "Generating"]
    /\ loop' = c
    /\ UNCHANGED <<auxVars, clientVars>>
    /\ UNCHANGED <<maxPos, sid, prompt, depth, completion, dropped, received>>
    /\ UNCHANGED <<sessVars, engVars, ghostVars>>

\* the final append goes through the manager and registers the session again
Complete_Reregister(c) ==
    /\ loop = c
    /\ pc[c] = "Completing"
    /\ msgs' = [msgs EXCEPT ![sid[c]] = AddAssistantMessage(@, completion[c])]
    /\ appended' = [appended EXCEPT ![c] = Append(@, completion[c])]
    /\ store' = store \cup {sid[c]}
    /\ pc' = [pc EXCEPT ![c] = "Closing"]
    /\ loop' = 0
    /\ UNCHANGED <<auxVars, clientVars>>
    /\ UNCHANGED <<maxPos, nextId, sid, prompt, depth, completion,
                   dropped, received, entry, userIn, sendErrs, cause>>
    /\ UNCHANGED engVars

\* finally: session.add_assistant_message(completion), then await close()
Complete(c) ==
    /\ loop = c
    /\ pc[c] = "Completing"
    /\ msgs' = [msgs EXCEPT ![sid[c]] = AddAssistantMessage(@, completion[c])]
    /\ appended' = [appended EXCEPT ![c] = Append(@, completion[c])]
    /\ pc' = [pc EXCEPT ![c] = "Closing"]
    /\ loop' = 0
    /\ UNCHANGED <<auxVars, clientVars>>
    /\ UNCHANGED <<maxPos, store, nextId, sid, prompt, depth, completion,
                   dropped, received, entry, userIn, sendErrs, cause>>
    /\ UNCHANGED engVars

\* websocket.close() is done and the handler returns
Close(c) ==
    /\ loop = 0
    /\ pc[c] = "Closing"
    /\ pc' = [pc EXCEPT ![c] = "Closed"]
    /\ UNCHANGED <<auxVars, clientVars>>
    /\ UNCHANGED <<maxPos, loop, sid, prompt, depth, completion, dropped, received>>
    /\ UNCHANGED <<sessVars, engVars, ghostVars>>

\* ------------------------------------------------------ generation thread
\* the i-th fragment of a response, told apart from the others by its index
Fragment(i) == i

\* model.generate pushes its next decoded fragment into the streamer
EngineEmit(c) ==
    /\ eng[c] = "running"
    /\ Len(produced[c]) < MaxFrags
    /\ queue' = [queue EXCEPT ![c] = Append(@, Fragment(Len(produced[c]) + 1))]
    /\ produced' = [produced EXCEPT ![c] = Append(@, Fragment(Len(produced[c]) + 1))]
    /\ UNCHANGED <<auxVars, clientVars>>
    /\ UNCHANGED <<maxPos, loop, pc, sid, prompt, depth, completion, dropped,
                   received, eng>>
    /\ UNCHANGED <<sessVars, ghostVars>>

\* model.generate returns: streamer.end() pushes the stop signal
EngineEnd(c) ==
    /\ eng[c] = "running"
    /\ queue' = [queue EXCEPT ![c] = Append(@, STOP)]
    /\ eng' = [eng EXCEPT ![c] = "done"]
    /\ UNCHANGED <<auxVars, clientVars>>
    /\ UNCHANGED <<maxPos, loop, pc, sid, prompt, depth, completion, dropped,
                   received, produced>>
    /\ UNCHANGED <<sessVars, ghostVars>>

\* model.generate raises inside its thread: the thread dies, nothing is pushed
EngineFail(c) ==
    /\ eng[c] = "running"
    /\ eng' = [eng EXCEPT ![c] = "failed"]
    /\ UNCHANGED <<auxVars, clientVars>>
    /\ UNCHANGED <<maxPos, loop, pc, sid, prompt, depth, completion, dropped,
                   received, queue, produced>>
    /\ UNCHANGED <<sessVars, ghostVars>>

\* ------------------------------------------------------------------ client
\* the client drops the connection
ClientDisconnect(c) ==
    /\ pc[c] \in {"AwaitingPrompt", "Prompting", "Starting", "Generating", "Sleeping"}
    /\ ~dropped[c]
    /\ dropped' = [dropped EXCEPT ![c] = TRUE]
    /\ UNCHANGED <<auxVars, clientVars>>
    /\ UNCHANGED <<maxPos, loop, pc, sid, prompt, depth, completion, received>>
    /\ UNCHANGED <<sessVars, engVars, ghostVars>>

\* ----------------------------------------------------------- specification
Handler(c) ==
    \/ \E s \in Ids : Accept(c, s)
    \/ \E p \in Prompts : ReceivePrompt(c, p)
    \/ ReceiveDisconnect(c)
    \/ MakePromptStep(c)
    \/ StartGeneration(c)
    \/ PullToken(c)
    \/ Wake(c)
    \/ Complete(c)
    \/ Close(c)

Engine(c) ==
    \/ EngineEmit(c)
    \/ EngineEnd(c)
    \/ EngineFail(c)

Next ==
    \/ \E s \in Ids, r \in Titles \cup {""} : TitleRequest(s, r)
    \/ CreateSession
    \/ \E s \in Ids : DeleteSession(s)
    \/ \E c \in Conns : Handler(c)
    \/ \E c \in Conns : Engine(c)
    \/ \E c \in Conns : ClientDisconnect(c)

Spec == Init /\ [][Next]_vars

\* the event loop runs every ready coroutine in turn (strong fairness: a
\* coroutine that is ready again and again is run); a started thread runs on
\* until it ends or dies.  Clients and the session endpoints owe nothing.
Fairness ==
    /\ \A c \in Conns : SF_vars(Handler(c))
    /\ \A c \in Conns : WF_vars(Engine(c))

FairSpec == Spec /\ Fairness


\* ------------------------------------------------ client (chat_client.py)
\* One ChatApp talking to the server: nobody else creates or removes sessions
\* or opens streams.  send_message, load_session, reset_session and
\* delete_session run on the threads of the JS bridge; stream_tokens runs on
\* the client's own event loop, whose finally block (no await in it) runs in
\* one piece with respect to the other streams but not to those threads.

\* json.dumps(title)
JsonDumps(t) == "\"" \o t \o "\""

\* the connection of c is over: closed by the handler, or by its death
Ended(c) == pc[c] \in {"Closed", "Crashed"}

\* the finally block of some stream other than c is under way
OtherInFinally(c) == \E d \in Conns \ {c} : cpc[d] \in {"request", "record"}

\* send_message: GET /session when there is no current session, then the
\* stream coroutine is handed to the event loop with the uri of the session
SendMessage(c) ==
    /\ cpc[c] = "idle"
    /\ \A d \in Conns : d < c => cpc[d] # "idle"
    /\ IF cSession = 0
       THEN /\ GetNewSession
            /\ cSession' = NewId
            /\ cTitles' = [cTitles EXCEPT ![NewId] = DefaultTitle]
       ELSE /\ UNCHANGED serverVars
            /\ UNCHANGED <<cSession, cTitles>>
    /\ cTarget' = [cTarget EXCEPT ![c] = cSession']
    /\ cpc' = [cpc EXCEPT ![c] = "spawned"]
    /\ UNCHANGED <<cUrl, cResp, cKey, cAsked>>

\* websockets.connect(uri): the server accepts the stream on the uri's session
Connect(c) ==
    /\ cpc[c] = "spawned"
    /\ Accept(c, cTarget[c])

\* load_session(s) for a listed session the server still holds
LoadSession(s) ==
    /\ loop = 0
    /\ s # cSession
    /\ cTitles[s] # NoTitle
    /\ s \in store
    /\ cSession' = s
    /\ UNCHANGED serverVars
    /\ UNCHANGED <<cTitles, cpc, cTarget, cUrl, cResp, cKey, cAsked>>

\* reset_session
ResetSession ==
    /\ cSession # 0
    /\ cSession' = 0
    /\ UNCHANGED serverVars
    /\ UNCHANGED <<cTitles, cpc, cTarget, cUrl, cResp, cKey, cAsked>>

\* delete_session(s) for a listed session
RequestDelete(s) ==
    /\ cTitles[s] # NoTitle
    /\ RemoveSession(s)
    /\ cSession' = IF s = cSession THEN 0 ELSE cSession
    /\ UNCHANGED <<cTitles, cpc, cTarget, cUrl, cResp, cKey, cAsked>>

\* the recv loop ends with the connection; line 33 looks the current
\* session's recorded title up (KeyError when there is no current session)
TitleCheck(c) ==
    /\ cpc[c] = "spawned"
    /\ Ended(c)
    /\ ~OtherInFinally(c)
    /\ cpc' = [cpc EXCEPT ![c] = IF cTitles[cSession] = DefaultTitle
                                 THEN "request" ELSE "done"]
    /\ UNCHANGED serverVars
    /\ UNCHANGED <<cSession, cTitles, cTarget, cUrl, cResp, cKey, cAsked>>

\* lines 35-37: the title of the session that is current now is requested;
\* r is the summarizer's answer, "" when it raises
TitleGet(c, r) ==
    /\ cpc[c] = "request"
    /\ IF cSession \in Ids
       THEN /\ GetSessionTitle(cSession, r)
            /\ cResp' = [cResp EXCEPT ![c] = JsonDumps(TitleResponse(cSession, r))]
            /\ cAsked' = IF cSession \in store
                         THEN [cAsked EXCEPT ![cSession] = @ + 1]
                         ELSE cAsked
       ELSE /\ r = ""
            /\ cResp' = [cResp EXCEPT ![c] = JsonDumps("Unprocessable Entity")]
            /\ UNCHANGED serverVars
            /\ UNCHANGED cAsked
    /\ cUrl' = [cUrl EXCEPT ![c] = cSession]
    /\ cpc' = [cpc EXCEPT ![c] = "record"]
    /\ UNCHANGED <<cSession, cTitles, cTarget, cKey>>

\* line 38: the answer is recorded under the session that is current now
TitleRecord(c) ==
    /\ cpc[c] = "record"
    /\ cTitles' = [cTitles EXCEPT ![cSession] = cResp[c]]
    /\ cKey' = [cKey EXCEPT ![c] = cSession]
    /\ cpc' = [cpc EXCEPT ![c] = "done"]
    /\ UNCHANGED serverVars
    /\ UNCHANGED <<cSession, cTarget, cUrl, cResp, cAsked>>

\* the server's handler of a stream the client has opened
Served(c) ==
    \/ \E p \in Prompts : ReceivePrompt(c, p)
    \/ MakePromptStep(c)
    \/ StartGeneration(c)
    \/ PullToken(c)
    \/ Wake(c)
    \/ Complete(c)
    \/ Close(c)

ClientNext ==
    \/ \E c \in Conns : SendMessage(c)
    \/ \E c \in Conns : Connect(c)
    \/ \E s \in Ids : LoadSession(s)
    \/ ResetSession
    \/ \E s \in Ids : RequestDelete(s)
    \/ \E c \in Conns : TitleCheck(c)
    \/ \E c \in Conns, r \in Titles \cup {""} : TitleGet(c, r)
    \/ \E c \in Conns : TitleRecord(c)
    \/ \E c \in Conns : Served(c)
    \/ \E c \in Conns : Engine(c)

ClientSpec == Init /\ [][ClientNext]_vars

\* ------------------------------------------- make_prompt on any transcript
\* the messages a transcript may hold after the system message
HistMessages ==
    {Msg("user", <<p>>) : p \in Prompts}
        \cup {Msg("assistant", [i \in 1..k |-> Fragment(i)]) : k \in 0..MaxFrags}

OneConn(v, w) == [c \in Conns |-> IF c = 1 THEN v ELSE w]

\* stream() at line 110: connection 1 has appended its prompt to session 1,
\* whose earlier history is any bounded transcript, and enters make_prompt
PromptInit ==
    /\ maxPos \in MaxPosChoices
    /\ store = {1}
    /\ nextId = 2
    /\ title = [s \in Ids |-> IF s = 1 THEN DefaultTitle ELSE NoTitle]
    /\ issued = <<1>>
    /\ midDel = ConnInit(FALSE)
    /\ \E h \in SeqsUpTo(HistMessages, MaxHist), p \in Prompts :
          LET ms == AddUserMessage(<<SystemMessage>> \o h, <<p>>)
          IN /\ msgs = [s \in Ids |-> IF s = 1 THEN ms ELSE <<>>]
             /\ entry = OneConn(ms, <<>>)
             /\ prompt = OneConn(p, "")
    /\ loop = 1
    /\ pc = OneConn("Prompting", "AwaitingHandshake")
    /\ sid = OneConn(1, 0)
    /\ depth = ConnInit(0)
    /\ completion = ConnInit(<<>>)
    /\ queue = ConnInit(<<>>)
    /\ eng = ConnInit("none")
    /\ produced = ConnInit(<<>>)
    /\ received = ConnInit(<<>>)
    /\ dropped = ConnInit(FALSE)
    /\ appended = ConnInit(<<>>)
    /\ userIn = OneConn(TRUE, FALSE)
    /\ sendErrs = ConnInit(0)
    /\ cause = ConnInit("none")
    /\ ClientInit

PromptNext == MakePromptStep(1)

PromptSpec == PromptInit /\ [][PromptNext]_vars

\* ------------------------------------ truncate_messages on any transcript
\* session 1 holds any bounded transcript; depth[1] counts the calls made
TruncInit ==
    /\ maxPos \in MaxPosChoices
    /\ store = {1}
    /\ nextId = 2
    /\ title = [s \in Ids |-> IF s = 1 THEN DefaultTitle ELSE NoTitle]
    /\ issued = <<1>>
    /\ midDel = ConnInit(FALSE)
    /\ \E h \in SeqsUpTo(HistMessages, MaxHist) :
          /\ msgs = [s \in Ids |-> IF s = 1 THEN <<SystemMessage>> \o h ELSE <<>>]
          /\ entry = OneConn(<<SystemMessage>> \o h, <<>>)
    /\ loop = 0
    /\ pc = ConnInit("AwaitingHandshake")
    /\ sid = OneConn(1, 0)
    /\ prompt = ConnInit("")
    /\ depth = ConnInit(0)
    /\ completion = ConnInit(<<>>)
    /\ queue = ConnInit(<<>>)
    /\ eng = ConnInit("none")
    /\ produced = ConnInit(<<>>)
    /\ received = ConnInit(<<>>)
    /\ dropped = ConnInit(FALSE)
    /\ appended = ConnInit(<<>>)
    /\ userIn = ConnInit(FALSE)
    /\ sendErrs = ConnInit(0)
    /\ cause = ConnInit("none")
    /\ ClientInit

\* session.truncate_messages(), called again while non-system messages remain
TruncateCall(c) ==
    /\ Len(msgs[sid[c]]) > 1
    /\ msgs' = [msgs EXCEPT ![sid[c]] = TruncateMessages(@)]
    /\ depth' = [depth EXCEPT ![c] = @ + 1]
    /\ UNCHANGED <<auxVars, clientVars>>
    /\ UNCHANGED <<maxPos, store, nextId, loop, pc, sid, prompt, completion,
                   dropped, received>>
    /\ UNCHANGED <<engVars, ghostVars>>

TruncNext == TruncateCall(1)

TruncSpec == TruncInit /\ [][TruncNext]_vars

\* ------------------------------------------------------------------ claims
\* c's stream has appended its user message and not yet its assistant message
InFlight(c) == userIn[c] /\ appended[c] = <<>> /\ pc[c] # "Crashed"

LastTwo(ms) == SubSeq(ms, Len(ms) - 1, Len(ms))

\* C1: a stream that has appended its user message and has ended, whichever way,
\* has appended exactly one assistant message, holding its accumulated completion.
C1_ExactlyOneAssistant ==
    \A c \in Conns :
        (userIn[c] /\ Ended(c)) => appended[c] = <<completion[c]>>

\* C2: two streams of the same session are never both between the append of
\* their user message and the append of their assistant message.
C2_OneGenerationPerSession ==
    \A c1, c2 \in Conns :
        (c1 # c2 /\ sid[c1] = sid[c2]) => ~(InFlight(c1) /\ InFlight(c2))

\* C3: when the engine's fragments are followed by the end marker and the client
\* stays connected, the client has received exactly the engine's fragments in
\* order, and the append of the assistant message leaves the transcript ending
\* with the user's prompt followed by the concatenated fragments.
C3_EndToEnd ==
    [][\A c \in Conns :
          (pc[c] = "Completing" /\ pc'[c] = "Closing"
             /\ cause[c] = "EndOfStream" /\ ~dropped[c])
          => /\ received[c] = produced[c]
             /\ LastTwo(msgs'[sid[c]]) = << Msg("user", <<prompt[c]>>),
                                            Msg("assistant", produced[c]) >>]_vars

\* C7: once the handler has dealt with the client's disconnect, the generation
\* thread of that stream pushes no further fragment.
C7_EngineStopsOnDisconnect ==
    [][\A c \in Conns :
          (cause[c] = "Disconnect" /\ pc[c] \in {"Closing", "Closed"})
          => produced'[c] = produced[c]]_vars

\* C9: once only the system message remains and its rendering is still over the
\* budget, make_prompt makes no further truncation attempt: the request aborts.
C9_AbortWhenSystemAloneTooBig ==
    [][\A c \in Conns :
          (pc[c] = "Prompting" /\ Len(msgs[sid[c]]) = 1
             /\ OverBudget(msgs[sid[c]]))
          => depth'[c] = depth[c]]_vars

\* C4: when the generation thread dies after pushing f1..fk and the client
\* stays connected, the handler gets to append an assistant message equal to
\* f1+...+fk.
C4_PartialOutputOnEngineFailure ==
    \A c \in Conns :
        [](  (eng[c] = "failed" /\ ~dropped[c])
          => <>(dropped[c] \/ appended[c] = <<produced[c]>>))

\* C5: every stream that has entered Generating eventually is Closed.
C5_GeneratingReachesClosed ==
    \A c \in Conns :
        [](pc[c] \in {"Generating", "Sleeping"} => <>(pc[c] = "Closed"))

\* C6: after a client's disconnect no fragment reaches that connection; the
\* handler's first failing send is its last send, the handler does not crash on
\* it, and the assistant message it appends is the text accumulated when the
\* send failed: the fragments delivered plus the one whose send failed.
C6_DisconnectPersistsPartial ==
    /\ [](\A c \in Conns :
            /\ sendErrs[c] <= 1
            /\ sendErrs[c] > 0 =>
                 /\ pc[c] \in {"Completing", "Closing", "Closed"}
                 /\ completion[c] # <<>>
                 /\ received[c] = SubSeq(completion[c], 1, Len(completion[c]) - 1)
            /\ (sendErrs[c] > 0 /\ pc[c] \in {"Closing", "Closed"}) =>
                 appended[c] = <<completion[c]>>)
    /\ [][\A c \in Conns : dropped[c] => received'[c] = received[c]]_vars

C6_Witness ==
    \E c \in Conns :
        /\ pc[c] = "Closed"
        /\ sendErrs[c] = 1
        /\ dropped[c]
        /\ Len(received[c]) = 1
        /\ appended[c] = <<completion[c]>>
        /\ Len(completion[c]) = 2

SystemFits(ms) == ms # <<>> /\ NumTokens(<<ms[1]>>) <= Budget

C10_TruncationSteps ==
    /\ [](LET e == entry[1]
              m == msgs[1]
              n0 == Len(e) - 1
              n == Len(m) - 1
          IN /\ m[1] = e[1]
             /\ m[1].role = "system"
             /\ Tail(m) = SubSeq(e, Len(e) - n + 1, Len(e))
             /\ depth[1] <= CeilHalf(n0)
             /\ (n = 0) <=> (depth[1] = CeilHalf(n0)))
    /\ [][Len(msgs'[1]) < Len(msgs[1])]_vars

C10_Witness ==
    /\ Len(entry[1]) = 4
    /\ Len(msgs[1]) = 1
    /\ depth[1] = 2


\* get_new_session has returned s at some time
Issued(s) == \E i \in 1..Len(issued) : issued[i] = s

\* C11: every identity returned by a create differs from every identity
\* returned before it, whether or not the earlier session was deleted since.
C11_IdsNeverReused ==
    \A i, j \in 1..Len(issued) : i # j => issued[i] # issued[j]

C11_Witness ==
    /\ Len(issued) = 2
    /\ issued[1] \notin store
    /\ issued[2] \in store

\* C12: a removed session is not found from then on, whatever happens next;
\* removing an id the registry does not hold is always possible (it does not
\* fail) and leaves the registry, the transcripts and the titles as they were.
C12_RemovedStaysRemoved ==
    /\ [][\A s \in Ids : DeleteSession(s) => s \notin store']_vars
    /\ [][\A s \in Ids : (Issued(s) /\ s \notin store) => s \notin store']_vars
    /\ [][\A s \in Ids : (DeleteSession(s) /\ s \notin store) =>
                             UNCHANGED <<store, nextId, msgs, title>>]_vars
    /\ [](loop = 0 => \A s \in Ids : ENABLED DeleteSession(s))

C12_Witness ==
    \E s \in Ids, c \in Conns :
        /\ Issued(s)
        /\ s \notin store
        /\ store # {}
        /\ sid[c] = s
        /\ cause[c] = "NotFound"

C14_TitleLifecycle ==
    /\ [][\A s \in Ids : (s \in store' /\ s \notin store) =>
                             title'[s] = DefaultTitle]_vars
    /\ [][\A s \in Ids : title'[s] # title[s] =>
            \/ s \in store' /\ s \notin store
            \/ \E r \in Titles : GetSessionTitle(s, r) /\ s \in store]_vars
    /\ [][\A s \in Ids, r \in Titles \cup {""} : GetSessionTitle(s, r) =>
            /\ UNCHANGED <<store, nextId, msgs>>
            /\ \A o \in Ids \ {s} : title'[o] = title[o]
            /\ r = "" => title'[s] = title[s]
            /\ (r # "" /\ s \in store) =>
                   (title'[s] = r /\ TitleResponse(s, r) = title'[s])]_vars

C14_Witness ==
    \E s, o \in Ids :
        /\ s # o
        /\ title[s] \in Titles
        /\ Len(msgs[s]) >= 3
        /\ title[o] = DefaultTitle
        /\ o \in store

\* C16: when a connection on which an exchange began (the user message was
\* appended) closes, the assistant message of that exchange has been appended.
C16_AssistantBeforeClose ==
    [][\A c \in Conns :
         (userIn[c] /\ ~Ended(c) /\ Ended(c)') => appended'[c] # <<>>]_vars

\* C17: when make_prompt returns, the user message just appended is still the
\* last message of the transcript the prompt is rendered from.
C17_PromptSurvivesTruncation ==
    \A c \in Conns :
        pc[c] = "Starting" =>
            LET ms == msgs[sid[c]]
            IN /\ Len(ms) >= 2
               /\ ms[Len(ms)] = Msg("user", <<prompt[c]>>)

\* C19: a session removed while a stream on it is in flight stays out of the
\* registry through every later step; the stream meets no NotFound, and its
\* final append extends the transcript object it holds without touching the
\* registry.
C19_DeletedStaysDeleted ==
    /\ [](\A c \in Conns : midDel[c] => sid[c] \notin store)
    /\ [](\A c \in Conns : userIn[c] => cause[c] # "NotFound")
    /\ [][\A c \in Conns :
            (pc[c] = "Completing" /\ pc'[c] = "Closing") =>
                /\ UNCHANGED <<store, nextId, title>>
                /\ msgs'[sid[c]] = Append(msgs[sid[c]], Msg("assistant", completion[c]))]_vars

C19_Witness ==
    \E c \in Conns :
        /\ midDel[c]
        /\ pc[c] = "Closed"
        /\ cause[c] = "EndOfStream"
        /\ appended[c] = <<completion[c]>>
        /\ msgs[sid[c]][Len(msgs[sid[c]])] = Msg("assistant", completion[c])
        /\ sid[c] \notin store

\* C15: the summarizer is run at most once per session on behalf of the
\* client: once a title request for a session was answered, no later stream
\* end makes the client ask for that session's title again.
C15_OneTitleRequestPerSession ==
    \A s \in Ids : cAsked[s] <= 1

\* C18: the title request made when a stream ends names the session the
\* stream was opened on, and its answer is recorded under that session's id.
C18_TitleForStreamSession ==
    \A c \in Conns :
        /\ cpc[c] = "record" => cUrl[c] = cTarget[c]
        /\ (cpc[c] = "done" /\ cResp[c] # "") =>
               (cUrl[c] = cTarget[c] /\ cKey[c] = cTarget[c])

=============================================================================
